---- MODULE Spec2Model ----
(***************************************************************************)
(* Model of ijson/common.py: parse (path annotation of flat events),       *)
(* ObjectBuilder (tree building), items (prefix filtering) and ijsondict   *)
(* (hybrid eager skeleton + lazy item generator).                          *)
(*                                                                         *)
(* Python strings are sequences of one-character strings, so that          *)
(* '.'.join and str.split are computed, not assumed.  Python objects are   *)
(* cells of a heap addressed by their index, so that aliasing through the  *)
(* closures and the stacks is explicit.                                    *)
(***************************************************************************)
EXTENDS Integers, Sequences, FiniteSets, TLC

VARIABLES
  src,          \* flat events pulled from basic_events so far
  open,         \* the event source's open containers (innermost last)
  eof,          \* the event source has raised StopIteration
  path,         \* parse: local variable path
  pout,         \* parse: the (prefix, event, value) triples yielded so far
  perr,         \* parse: exception raised out of the generator ("" = none)
  builder,      \* the ObjectBuilder instance (containers, key, value)
  prefix,       \* items: the target prefix
  ipc,          \* items: where the generator is suspended
  end_event,    \* items: local variable end_event
  iout,         \* items: the values yielded so far
  idone,        \* items: the generator has returned
  ierr,         \* items: exception raised out of the generator ("" = none)
  hprefix,      \* ijsondict: self.prefix, the target path as a list
  keys_stack,   \* ijsondict: self.keys_stack
  data_stack,   \* ijsondict: self.data_stack
  heap,         \* ijsondict: the containers built; heap[1] is the ijsondict
  first,        \* ijsondict._start_parse: local variable first
  yield_flag,   \* ijsondict._json_generator: local variable yield_flag
  hpc,          \* ijsondict: which loop is running or suspended
  hout,         \* ijsondict._json_generator: the values yielded so far
  herr          \* ijsondict: exception raised ("" = none)

parse_vars == <<path, pout, perr>>
items_vars == <<prefix, ipc, end_event, iout, idone, ierr>>
hybrid_vars == <<hprefix, keys_stack, data_stack, heap, first, yield_flag,
                 hpc, hout, herr>>
vars == <<src, open, eof, path, pout, perr, builder,
          prefix, ipc, end_event, iout, idone, ierr,
          hprefix, keys_stack, data_stack, heap, first, yield_flag,
          hpc, hout, herr>>

(***************************** bounds **************************************)
MaxEvents == 8       \* longest event stream explored
MaxDepth == 3        \* deepest nesting the event source produces

(***************************** values **************************************)
None == [k |-> "none", v |-> 0]
Unset == [k |-> "unset", v |-> 0]         \* attribute not assigned yet
Num(n) == [k |-> "num", v |-> n]
Str(s) == [k |-> "str", v |-> s]
Ref(i) == [k |-> "ref", v |-> i]
Arr(s) == [k |-> "array", v |-> s]
Mp(f) == [k |-> "map", v |-> f]

Dot == "."
ItemStr == <<"i", "t", "e", "m">>

Scalars == {1, 2}
Keys == { <<"a">>, <<>>, <<"a", Dot, "b">> }

Ev(t, val) == [event |-> t, value |-> val]
IsStart(t) == t \in {"start_map", "start_array"}
IsEnd(t) == t \in {"end_map", "end_array"}

Last(s) == s[Len(s)]
Front(s) == SubSeq(s, 1, Len(s) - 1)

(************************* the event source ********************************)
\* basic_events: an external tokenizer producing a well-formed document,
\* which may also stop early (a broken source stream).
OpenArray == [t |-> "array", used |-> {}, want |-> "value"]
OpenMap == [t |-> "map", used |-> {}, want |-> "key"]

ValueDone(op) ==
  IF op # <<>> /\ Last(op).t = "map"
    THEN [op EXCEPT ![Len(op)].want = "key"]
    ELSE op

SrcComplete == Len(src) > 0 /\ open = <<>>

SrcValueEvents(op) ==
  { Ev("number", Num(n)) : n \in Scalars }
    \cup (IF Len(op) < MaxDepth
            THEN { Ev("start_map", None), Ev("start_array", None) }
            ELSE {})

SrcNext ==
  IF Len(src) >= MaxEvents \/ eof \/ SrcComplete THEN {}
  ELSE IF open = <<>> THEN SrcValueEvents(open)
  ELSE IF Last(open).t = "array"
    THEN SrcValueEvents(open) \cup { Ev("end_array", None) }
  ELSE IF Last(open).want = "key"
    THEN { Ev("map_key", Str(key)) : key \in Keys \ Last(open).used }
           \cup { Ev("end_map", None) }
  ELSE SrcValueEvents(open)

OpenAfter(op, e) ==
  CASE e.event = "start_map" -> Append(op, OpenMap)
    [] e.event = "start_array" -> Append(op, OpenArray)
    [] IsEnd(e.event) -> ValueDone(Front(op))
    [] e.event = "map_key" ->
         [op EXCEPT ![Len(op)].used = @ \cup {e.value.v},
                    ![Len(op)].want = "value"]
    [] OTHER -> ValueDone(op)

SrcPull(e) ==
  /\ e \in SrcNext
  /\ src' = Append(src, e)
  /\ open' = OpenAfter(open, e)
  /\ eof' = eof

SrcStop ==
  /\ ~eof
  /\ eof' = TRUE
  /\ UNCHANGED <<src, open>>

\* a malformed source: an End event while no container is open
SrcStrayEvents ==
  IF Len(src) >= MaxEvents \/ eof \/ open # <<>> THEN {}
  ELSE { Ev("end_map", None), Ev("end_array", None) }

SrcPullStray(e) ==
  /\ e \in SrcStrayEvents
  /\ src' = Append(src, e)
  /\ open' = open
  /\ eof' = eof

(******************************* parse *************************************)
RECURSIVE Join(_)
\* '.'.join(p) for a list of str
Join(p) ==
  IF p = <<>> THEN <<>>
  ELSE IF Len(p) = 1 THEN p[1].v
  ELSE p[1].v \o <<Dot>> \o Join(Tail(p))

JoinErr(p) == IF \E i \in DOMAIN p : p[i].k # "str" THEN "TypeError" ELSE ""

Failed_Silent(p, err) == [path |-> p, prefix |-> <<>>, err |-> ""]

Failed(p, err) == [path |-> p, prefix |-> <<>>, err |-> err]

ParseMapKey_Push(p, e) ==
  IF JoinErr(Front(p)) # "" THEN Failed(p, "TypeError")
  ELSE IF p = <<>> THEN Failed(p, "IndexError")
  ELSE [path |-> Append(p, e.value), prefix |-> Join(Front(p)), err |-> ""]

\* event == 'map_key': prefix = '.'.join(path[:-1]); path[-1] = value
ParseMapKey(p, e) ==
  IF JoinErr(Front(p)) # "" THEN Failed(p, "TypeError")
  ELSE IF p = <<>> THEN Failed(p, "IndexError")
  ELSE [path |-> [p EXCEPT ![Len(p)] = e.value],
        prefix |-> Join(Front(p)), err |-> ""]

\* event == 'start_map' / 'start_array': prefix = '.'.join(path); path.append(seg)
ParseStart(p, seg) ==
  IF JoinErr(p) # "" THEN Failed(p, "TypeError")
  ELSE [path |-> Append(p, seg), prefix |-> Join(p), err |-> ""]

ParseEnd_NoPop(p) ==
  IF p = <<>> THEN Failed(p, "IndexError")
  ELSE IF JoinErr(p) # "" THEN Failed(Front(p), "TypeError")
  ELSE [path |-> Front(p), prefix |-> Join(p), err |-> ""]

\* event == 'end_map' / 'end_array': path.pop(); prefix = '.'.join(path)
ParseEnd(p) ==
  IF p = <<>> THEN Failed(p, "IndexError")
  ELSE IF JoinErr(Front(p)) # "" THEN Failed(Front(p), "TypeError")
  ELSE [path |-> Front(p), prefix |-> Join(Front(p)), err |-> ""]

\* any scalar value: prefix = '.'.join(path)
ParseScalar(p) ==
  IF JoinErr(p) # "" THEN Failed(p, "TypeError")
  ELSE [path |-> p, prefix |-> Join(p), err |-> ""]

\* one iteration of the for loop of parse
ParseStep(p, e) ==
  CASE e.event = "map_key" -> ParseMapKey(p, e)
    [] e.event = "start_map" -> ParseStart(p, None)
    [] e.event = "end_map" -> ParseEnd(p)
    [] e.event = "start_array" -> ParseStart(p, Str(ItemStr))
    [] e.event = "end_array" -> ParseEnd(p)
    [] OTHER -> ParseScalar(p)

Triple(r, e) == [prefix |-> r.prefix, event |-> e.event, value |-> e.value]

\* a pull on the parse generator: one flat event in, one triple out
ParsePull ==
  /\ perr = ""
  /\ \E e \in SrcNext :
       LET r == ParseStep(path, e) IN
         /\ SrcPull(e)
         /\ path' = r.path
         /\ perr' = r.err
         /\ pout' = IF r.err = "" THEN Append(pout, Triple(r, e)) ELSE pout
  /\ UNCHANGED <<builder, items_vars, hybrid_vars>>

\* the flat event source is exhausted: the generator returns
ParseStop ==
  /\ perr = ""
  /\ SrcStop
  /\ UNCHANGED <<path, pout, perr, builder, items_vars, hybrid_vars>>

\* a pull on the parse generator that meets an End event of a malformed source
ParseStray ==
  /\ perr = ""
  /\ \E e \in SrcStrayEvents :
       LET r == ParseStep(path, e) IN
         /\ SrcPullStray(e)
         /\ path' = r.path
         /\ perr' = r.err
         /\ pout' = IF r.err = "" THEN Append(pout, Triple(r, e)) ELSE pout
  /\ UNCHANGED <<builder, items_vars, hybrid_vars>>

(**************************** ObjectBuilder ********************************)
\* ObjectBuilder.__init__
ObjectBuilder ==
  [containers |-> << [k |-> "initial_set", v |-> 0] >>,
   key |-> Unset, value |-> Unset, heap |-> <<>>, err |-> ""]

CallSlot_Prepend(b, val) ==
  IF b.containers = <<>> THEN [b EXCEPT !.err = "IndexError"]
  ELSE LET slot == Last(b.containers) IN
    CASE slot.k = "initial_set" -> [b EXCEPT !.value = val]
      [] slot.k = "setter" ->
           IF b.key = Unset THEN [b EXCEPT !.err = "AttributeError"]
           ELSE [b EXCEPT !.heap[slot.v] =
                   Mp((b.key.v :> val) @@ b.heap[slot.v].v)]
      [] OTHER ->
           [b EXCEPT !.heap[slot.v] = Arr(<<val>> \o b.heap[slot.v].v)]

\* calling the closure on top of self.containers with a value:
\* initial_set, setter (map[self.key] = value) or array.append
CallSlot(b, val) ==
  IF b.containers = <<>> THEN [b EXCEPT !.err = "IndexError"]
  ELSE LET slot == Last(b.containers) IN
    CASE slot.k = "initial_set" -> [b EXCEPT !.value = val]
      [] slot.k = "setter" ->
           IF b.key = Unset THEN [b EXCEPT !.err = "AttributeError"]
           ELSE [b EXCEPT !.heap[slot.v] =
                   Mp((b.key.v :> val) @@ b.heap[slot.v].v)]
      [] OTHER ->
           [b EXCEPT !.heap[slot.v] = Arr(Append(b.heap[slot.v].v, val))]

ObjEvent_NoPop(b, e) ==
  CASE e.event = "map_key" -> [b EXCEPT !.key = e.value]
    [] e.event = "start_map" ->
         LET id == Len(b.heap) + 1
             b1 == CallSlot([b EXCEPT !.heap = Append(b.heap, Mp(<<>>))], Ref(id))
         IN IF b1.err # "" THEN [b EXCEPT !.err = b1.err]
            ELSE [b1 EXCEPT !.containers = Append(@, [k |-> "setter", v |-> id])]
    [] e.event = "start_array" ->
         LET id == Len(b.heap) + 1
             b1 == CallSlot([b EXCEPT !.heap = Append(b.heap, Arr(<<>>))], Ref(id))
         IN IF b1.err # "" THEN [b EXCEPT !.err = b1.err]
            ELSE [b1 EXCEPT !.containers = Append(@, [k |-> "append", v |-> id])]
    [] IsEnd(e.event) -> b
    [] OTHER -> CallSlot(b, e.value)

\* ObjectBuilder.event
ObjEvent(b, e) ==
  CASE e.event = "map_key" -> [b EXCEPT !.key = e.value]
    [] e.event = "start_map" ->
         LET id == Len(b.heap) + 1
             b1 == CallSlot([b EXCEPT !.heap = Append(b.heap, Mp(<<>>))], Ref(id))
         IN IF b1.err # "" THEN [b EXCEPT !.err = b1.err]
            ELSE [b1 EXCEPT !.containers = Append(@, [k |-> "setter", v |-> id])]
    [] e.event = "start_array" ->
         LET id == Len(b.heap) + 1
             b1 == CallSlot([b EXCEPT !.heap = Append(b.heap, Arr(<<>>))], Ref(id))
         IN IF b1.err # "" THEN [b EXCEPT !.err = b1.err]
            ELSE [b1 EXCEPT !.containers = Append(@, [k |-> "append", v |-> id])]
    [] IsEnd(e.event) ->
         IF b.containers = <<>> THEN [b EXCEPT !.err = "IndexError"]
         ELSE [b EXCEPT !.containers = Front(@)]
    [] OTHER -> CallSlot(b, e.value)

\* the caller's loop: for event, value in basic_events: builder.event(...)
BuilderFeed ==
  /\ builder.err = ""
  /\ \E e \in SrcNext :
       /\ SrcPull(e)
       /\ builder' = ObjEvent(builder, e)
  /\ UNCHANGED <<parse_vars, items_vars, hybrid_vars>>

BuilderStop ==
  /\ builder.err = ""
  /\ SrcStop
  /\ UNCHANGED <<parse_vars, builder, items_vars, hybrid_vars>>

\* the caller's loop meeting an End event of a malformed source
BuilderStray ==
  /\ builder.err = ""
  /\ \E e \in SrcStrayEvents :
       /\ SrcPullStray(e)
       /\ builder' = ObjEvent(builder, e)
  /\ UNCHANGED <<parse_vars, items_vars, hybrid_vars>>

(************************** the object graph *******************************)
RECURSIVE Deref(_, _)
\* the tree a value denotes: references replaced by what they point to
Deref(hp, val) ==
  IF val.k # "ref" THEN val
  ELSE LET o == hp[val.v] IN
    IF o.k = "array"
      THEN Arr([i \in DOMAIN o.v |-> Deref(hp, o.v[i])])
      ELSE Mp([key \in DOMAIN o.v |-> Deref(hp, o.v[key])])

(******************************* items *************************************)
\* event.replace('start', 'end')
EndEvent(event) == IF event = "start_map" THEN "end_map" ELSE "end_array"

\* the outer while loop, just after next(prefixed_events) returned t
ItemsTop(t, e) ==
  IF t.prefix = prefix
    THEN IF IsStart(t.event)
      THEN /\ builder' = ObjEvent(ObjectBuilder, e)
           /\ end_event' = EndEvent(t.event)
           /\ ipc' = "build"
           /\ iout' = iout
      ELSE /\ iout' = Append(iout, t.value)
           /\ UNCHANGED <<builder, end_event, ipc>>
    ELSE UNCHANGED <<builder, end_event, ipc, iout>>

\* the inner while loop, just after next(prefixed_events) returned t
ItemsBuild(t, e) ==
  IF <<t.prefix, t.event>> # <<prefix, end_event>>
    THEN /\ builder' = ObjEvent(builder, e)
         /\ UNCHANGED <<end_event, ipc, iout>>
    ELSE /\ iout' = Append(iout, Deref(builder.heap, builder.value))
         /\ ipc' = "top"
         /\ UNCHANGED <<builder, end_event>>

\* items pulls one prefixed event from parse, which pulls one flat event
ItemsPull ==
  /\ ~idone /\ ierr = ""
  /\ \E e \in SrcNext :
       LET r == ParseStep(path, e)
           t == Triple(r, e)
       IN /\ SrcPull(e)
          /\ path' = r.path
          /\ perr' = r.err
          /\ pout' = IF r.err = "" THEN Append(pout, t) ELSE pout
          /\ IF r.err # ""
               THEN /\ ierr' = r.err
                    /\ UNCHANGED <<builder, end_event, ipc, iout>>
               ELSE /\ IF ipc = "top" THEN ItemsTop(t, e) ELSE ItemsBuild(t, e)
                    /\ ierr' = builder'.err
  /\ UNCHANGED <<prefix, idone, hybrid_vars>>

\* the flat source is exhausted: parse returns, next() raises StopIteration
\* inside items, which the except clause swallows
ItemsStop ==
  /\ ~idone /\ ierr = ""
  /\ SrcStop
  /\ idone' = TRUE
  /\ UNCHANGED <<parse_vars, builder, prefix, ipc, end_event, iout, ierr,
                 hybrid_vars>>

(***************************** ijsondict ***********************************)
Gen == [k |-> "gen", v |-> 0]      \* the generator object self._json_generator(parser)
Self == Ref(1)                     \* the ijsondict itself, a dict

RECURSIVE Split(_, _)
\* str.split('.'): cur is the segment being read
Split(str, cur) ==
  IF str = <<>> THEN <<Str(cur)>>
  ELSE IF Head(str) = Dot THEN <<Str(cur)>> \o Split(Tail(str), <<>>)
  ELSE Split(Tail(str), Append(cur, Head(str)))

\* ijsondict.__init__ with a string prefix: self.prefix = prefix.split('.')
PrefixOf(str) == Split(str, <<>>)

ListV(s) == [k |-> "list", v |-> s]   \* a Python list given as prefix

InitPrefix_AcceptAll(arg) ==
  IF arg.k = "str" THEN [prefix |-> PrefixOf(arg.v), err |-> ""]
  ELSE IF arg.k = "list" THEN [prefix |-> arg.v, err |-> ""]
  ELSE [prefix |-> <<arg>>, err |-> ""]

\* ijsondict.__init__: isinstance(prefix, basestring) -> split('.');
\* isinstance(prefix, list) -> as given; else raise ValueError
InitPrefix(arg) ==
  IF arg.k = "str" THEN [prefix |-> PrefixOf(arg.v), err |-> ""]
  ELSE IF arg.k = "list" THEN [prefix |-> arg.v, err |-> ""]
  ELSE [prefix |-> arg, err |-> "ValueError"]

\* ijsondict.__init__ up to the call of _start_parse; until it has run,
\* hprefix holds the prefix argument and hpc is "new"
Construct ==
  /\ hpc = "new" /\ herr = ""
  /\ LET r == InitPrefix(hprefix) IN
       /\ hprefix' = r.prefix
       /\ herr' = r.err
       /\ hpc' = IF r.err = "" THEN "start_parse" ELSE "new"
  /\ keys_stack' = <<>>
  /\ data_stack' = <<>>
  /\ UNCHANGED <<src, open, eof, parse_vars, builder, items_vars, heap, first,
                 yield_flag, hout>>

\* classmap[token]()
NewContainer(token) == IF token = "start_map" THEN Mp(<<>>) ELSE Arr(<<>>)

\* if isinstance(data, dict): data[key] = value  else: data.append(value)
Store(hp, keys, data, val) ==
  LET id == Last(data).v IN
    IF hp[id].k = "map"
      THEN [hp EXCEPT ![id] = Mp((Last(keys).v :> val) @@ hp[id].v)]
      ELSE [hp EXCEPT ![id] = Arr(Append(hp[id].v, val))]

\* if len(keys_stack): link this into the container on top of the data stack
Link(hp, keys, data, this) ==
  IF keys # <<>> THEN Store(hp, keys, data, this) ELSE hp

PopBoth_KeysOnly(keys, data) == [keys |-> Front(keys), data |-> data]

\* keys_stack.pop(); data_stack.pop()
PopBoth(keys, data) == [keys |-> Front(keys), data |-> Front(data)]

\* _start_parse: one iteration of the for loop on a start_ token
StartParseStart(e) ==
  LET match == keys_stack = Front(hprefix)
      fresh == ~match /\ ~first
      hp1 == IF fresh THEN Append(heap, NewContainer(e.event)) ELSE heap
      this == IF match THEN Gen ELSE IF first THEN Self ELSE Ref(Len(hp1))
  IN /\ heap' = Link(hp1, keys_stack, data_stack, this)
     /\ data_stack' = Append(data_stack, this)
     /\ keys_stack' = Append(keys_stack, Str(ItemStr))
     /\ first' = (first /\ match)
     /\ hpc' = IF match THEN "handoff" ELSE "start_parse"
     /\ herr' = herr

\* _start_parse: the other tokens
StartParseOther(e) ==
  IF keys_stack = <<>>
    THEN /\ herr' = "IndexError"
         /\ UNCHANGED <<heap, data_stack, keys_stack, first, hpc>>
    ELSE /\ IF IsEnd(e.event)
              THEN /\ keys_stack' = PopBoth(keys_stack, data_stack).keys
                   /\ data_stack' = PopBoth(keys_stack, data_stack).data
                   /\ heap' = heap
              ELSE IF e.event = "map_key"
                THEN /\ keys_stack' = [keys_stack EXCEPT ![Len(keys_stack)] = e.value]
                     /\ UNCHANGED <<data_stack, heap>>
                ELSE /\ heap' = Store(heap, keys_stack, data_stack, e.value)
                     /\ UNCHANGED <<keys_stack, data_stack>>
         /\ UNCHANGED <<first, hpc, herr>>

\* ijsondict(parser, prefix): the loop of _start_parse, one token per step
StartParse ==
  /\ hpc = "start_parse" /\ herr = ""
  /\ \E e \in SrcNext :
       /\ SrcPull(e)
       /\ IF IsStart(e.event) THEN StartParseStart(e) ELSE StartParseOther(e)
  /\ UNCHANGED <<parse_vars, builder, items_vars, hprefix, yield_flag, hout>>

\* the parser is exhausted before the target is reached: __init__ returns
StartParseStop ==
  /\ hpc = "start_parse" /\ herr = ""
  /\ SrcStop
  /\ hpc' = "built"
  /\ UNCHANGED <<parse_vars, builder, items_vars, hprefix, keys_stack,
                 data_stack, heap, first, yield_flag, hout, herr>>

\* _json_generator, first statements (run by the first pull only):
\* data_stack[-1] = []
GenHeap == IF hpc = "handoff" THEN Append(heap, Arr(<<>>)) ELSE heap
GenData ==
  IF hpc = "handoff"
    THEN [data_stack EXCEPT ![Len(data_stack)] = Ref(Len(heap) + 1)]
    ELSE data_stack

YieldFlagAfter_ScalarOnly(flag, e) ==
  flag \/ e.event \notin {"start_map", "start_array", "end_map", "end_array", "map_key"}

\* yield_flag after the token's branch: set by an end_ token and by a scalar
YieldFlagAfter(flag, e) == flag \/ ~(IsStart(e.event) \/ e.event = "map_key")

\* if yield_flag and keys_stack == self.prefix
ShouldYield(flag, keys) == flag /\ keys = hprefix

\* _json_generator: what one token does to the stacks and the containers;
\* value is the generator's local variable value after the branch
GenToken(e) ==
  LET hp == GenHeap
      ds == GenData
  IN CASE IsStart(e.event) ->
            LET hp1 == Append(hp, NewContainer(e.event))
                this == Ref(Len(hp1))
            IN [heap |-> Link(hp1, keys_stack, ds, this),
                data |-> Append(ds, this),
                keys |-> Append(keys_stack, Str(ItemStr)),
                value |-> e.value, err |-> ""]
       [] keys_stack = <<>> ->
            [heap |-> hp, data |-> ds, keys |-> keys_stack,
             value |-> e.value, err |-> "IndexError"]
       [] IsEnd(e.event) ->
            [heap |-> hp, data |-> PopBoth(keys_stack, ds).data,
             keys |-> PopBoth(keys_stack, ds).keys,
             value |-> Last(ds), err |-> ""]
       [] e.event = "map_key" ->
            [heap |-> hp, data |-> ds,
             keys |-> [keys_stack EXCEPT ![Len(keys_stack)] = e.value],
             value |-> e.value, err |-> ""]
       [] OTHER ->
            [heap |-> Store(hp, keys_stack, ds, e.value), data |-> ds,
             keys |-> keys_stack, value |-> e.value, err |-> ""]

\* resuming a generator suspended at the yield runs yield_flag = False
\* before the next token is asked for
ResumeFlag == IF hpc = "yielded" THEN FALSE ELSE yield_flag

\* a pull on the generator stored by _start_parse: one token per step; the
\* step that yields appends to hout and leaves the generator suspended at
\* the yield, yield_flag still set
Generator ==
  /\ hpc \in {"handoff", "generator", "yielded"} /\ herr = ""
  /\ \E e \in SrcNext :
       LET r == GenToken(e)
           flag == YieldFlagAfter(ResumeFlag, e)
           yields == r.err = "" /\ ShouldYield(flag, r.keys)
       IN /\ SrcPull(e)
          /\ heap' = r.heap
          /\ data_stack' = r.data
          /\ keys_stack' = r.keys
          /\ herr' = r.err
          /\ yield_flag' = IF r.err # "" THEN ResumeFlag ELSE flag
          /\ hpc' = IF yields THEN "yielded" ELSE "generator"
          /\ hout' = IF yields
                       THEN Append(hout, [value |-> r.value,
                                          tree |-> Deref(r.heap, r.value),
                                          at |-> Len(src) + 1])
                       ELSE hout
  /\ UNCHANGED <<parse_vars, builder, items_vars, hprefix, first>>

\* the parser is exhausted: the generator returns
GeneratorStop ==
  /\ hpc \in {"handoff", "generator", "yielded"} /\ herr = ""
  /\ SrcStop
  /\ heap' = GenHeap
  /\ data_stack' = GenData
  /\ yield_flag' = ResumeFlag
  /\ hpc' = "drained"
  /\ UNCHANGED <<parse_vars, builder, items_vars, hprefix, keys_stack, first,
                 hout, herr>>

(************************* specifications **********************************)
InitSrc ==
  /\ src = <<>>
  /\ open = <<>>
  /\ eof = FALSE

InitParse ==
  /\ path = <<>>
  /\ pout = <<>>
  /\ perr = ""

InitBuilder == builder = ObjectBuilder

ItemsPrefixes ==
  { <<>>, <<"a">>, ItemStr, <<"a", Dot>> \o ItemStr }

InitItems ==
  /\ prefix = <<>>
  /\ ipc = "top"
  /\ end_event = ""
  /\ iout = <<>>
  /\ idone = FALSE
  /\ ierr = ""

\* target prefixes given to ijsondict: 'a.item', 'item.item', 'item', 'a'
HybridPrefixes ==
  { <<"a", Dot>> \o ItemStr, ItemStr \o <<Dot>> \o ItemStr, ItemStr, <<"a">> }

\* ijsondict.__init__ up to the call of _start_parse
InitHybrid ==
  /\ hprefix = PrefixOf(ItemStr)
  /\ keys_stack = <<>>
  /\ data_stack = <<>>
  /\ heap = << Mp(<<>>) >>
  /\ first = TRUE
  /\ yield_flag = FALSE
  /\ hpc = "start_parse"
  /\ hout = <<>>
  /\ herr = ""

Init == InitSrc /\ InitParse /\ InitBuilder /\ InitItems /\ InitHybrid

NextParse == ParsePull \/ ParseStop
SpecParse == Init /\ [][NextParse]_vars

NextBuilder == BuilderFeed \/ BuilderStop
SpecBuilder == Init /\ [][NextBuilder]_vars

\* items(parse(basic_events), prefix)
InitSpecItems ==
  /\ InitSrc /\ InitParse /\ InitBuilder
  /\ prefix \in ItemsPrefixes
  /\ ipc = "top"
  /\ end_event = ""
  /\ iout = <<>>
  /\ idone = FALSE
  /\ ierr = ""
  /\ InitHybrid

NextItems == ItemsPull \/ ItemsStop
SpecItems == InitSpecItems /\ [][NextItems]_vars

\* ijsondict(basic_events, prefix) and the pulls on its generator
InitSpecHybrid ==
  /\ InitSrc /\ InitParse /\ InitBuilder /\ InitItems
  /\ \E str \in HybridPrefixes : hprefix = PrefixOf(str)
  /\ keys_stack = <<>>
  /\ data_stack = <<>>
  /\ heap = << Mp(<<>>) >>
  /\ first = TRUE
  /\ yield_flag = FALSE
  /\ hpc = "start_parse"
  /\ hout = <<>>
  /\ herr = ""

Next == StartParse \/ StartParseStop \/ Generator \/ GeneratorStop
Spec == InitSpecHybrid /\ [][Next]_vars

\* parse and ObjectBuilder over a source that may be malformed
NextParseMalformed == ParsePull \/ ParseStop \/ ParseStray
SpecParseMalformed == Init /\ [][NextParseMalformed]_vars

NextBuilderMalformed == BuilderFeed \/ BuilderStop \/ BuilderStray
SpecBuilderMalformed == Init /\ [][NextBuilderMalformed]_vars

\* prefix arguments given to ijsondict: 'a.item', ['a', 'item'], ['item'],
\* and two that are neither a string nor a list: 1 and None
PrefixArgs ==
  { Str(<<"a", Dot>> \o ItemStr), ListV(<<Str(<<"a">>), Str(ItemStr)>>),
    ListV(<<Str(ItemStr)>>), Num(1), None }

\* ijsondict(basic_events, prefix) from the call of the constructor
InitSpecConstruct ==
  /\ InitSrc /\ InitParse /\ InitBuilder /\ InitItems
  /\ hprefix \in PrefixArgs
  /\ keys_stack = <<>>
  /\ data_stack = <<>>
  /\ heap = << Mp(<<>>) >>
  /\ first = TRUE
  /\ yield_flag = FALSE
  /\ hpc = "new"
  /\ hout = <<>>
  /\ herr = ""

NextConstruct ==
  Construct \/ StartParse \/ StartParseStop \/ Generator \/ GeneratorStop
SpecConstruct == InitSpecConstruct /\ [][NextConstruct]_vars

(******************* reference: the document itself ************************)
\* The value a complete event sequence encodes, by recursive descent.
RECURSIVE DecValue(_, _), DecArray(_, _, _), DecMap(_, _, _)
DecValue(evs, i) ==
  CASE evs[i].event = "start_array" -> DecArray(evs, i + 1, <<>>)
    [] evs[i].event = "start_map" -> DecMap(evs, i + 1, <<>>)
    [] OTHER -> [val |-> evs[i].value, next |-> i + 1]
DecArray(evs, i, acc) ==
  IF evs[i].event = "end_array" THEN [val |-> Arr(acc), next |-> i + 1]
  ELSE LET r == DecValue(evs, i) IN DecArray(evs, r.next, Append(acc, r.val))
DecMap(evs, i, acc) ==
  IF evs[i].event = "end_map" THEN [val |-> Mp(acc), next |-> i + 1]
  ELSE LET r == DecValue(evs, i + 1)
       IN DecMap(evs, r.next, (evs[i].value.v :> r.val) @@ acc)

Document == DecValue(src, 1).val

\* Nesting depth in force just before event i.
DepthBefore(evs, i) ==
  Cardinality({j \in 1..(i - 1) : IsStart(evs[j].event)})
    - Cardinality({j \in 1..(i - 1) : IsEnd(evs[j].event)})

Max(S) == CHOOSE x \in S : \A y \in S : y <= x

\* The Start event that opened the level-d container enclosing event i.
LevelStart(evs, i, d) ==
  Max({j \in 1..(i - 1) : IsStart(evs[j].event) /\ DepthBefore(evs, j) = d - 1})

\* The path segment naming, inside the level-d container, the place event i
\* is in: 'item' in an array, the latest key in a map.
Segment(evs, i, d) ==
  LET j == LevelStart(evs, i, d) IN
    IF evs[j].event = "start_array" THEN Str(ItemStr)
    ELSE evs[Max({m \in (j + 1)..(i - 1) :
                    evs[m].event = "map_key" /\ DepthBefore(evs, m) = d})].value

\* Location of the value event i starts (or is).
Location(evs, i) == [d \in 1..DepthBefore(evs, i) |-> Segment(evs, i, d)]

\* Location of the container a map_key or End event i belongs to.
OwnerLocation(evs, i) == [d \in 1..(DepthBefore(evs, i) - 1) |-> Segment(evs, i, d)]

RefPrefix(evs, i) ==
  IF evs[i].event = "map_key" \/ IsEnd(evs[i].event)
    THEN Join(OwnerLocation(evs, i))
    ELSE Join(Location(evs, i))

(******************************* claims ************************************)

\* C1: Tree Builder round trip.  Once a well-formed event sequence encoding
\* a single value V has been fed event by event to a fresh ObjectBuilder,
\* builder.value denotes V: scalars equal, array order preserved, every map
\* value under the key of its own map.
C1_RoundTrip ==
  SrcComplete =>
    /\ builder.err = ""
    /\ Deref(builder.heap, builder.value) = Document

\* {"a": {}, "": 1} has been built: a value that follows a closed nested map
C1_Witness ==
  /\ SrcComplete
  /\ Deref(builder.heap, builder.value) = Document
  /\ Document = Mp((<<"a">> :> Mp(<<>>)) @@ (<<>> :> Num(1)))

\* C3: Path Annotator output.  parse emits one triple per flat event, in
\* order, kind and value unchanged, the prefix being the dotted location of
\* the event in the document; {"a":[1,2]} gives "", "", a, a.item, a.item,
\* a, "".
C3_Example ==
  << Ev("start_map", None), Ev("map_key", Str(<<"a">>)),
     Ev("start_array", None), Ev("number", Num(1)), Ev("number", Num(2)),
     Ev("end_array", None), Ev("end_map", None) >>

C3_ExamplePrefixes ==
  << <<>>, <<>>, <<"a">>, <<"a", Dot>> \o ItemStr, <<"a", Dot>> \o ItemStr,
     <<"a">>, <<>> >>

C3_PathAnnotator ==
  /\ perr = ""
  /\ Len(pout) = Len(src)
  /\ \A i \in DOMAIN pout :
       pout[i] = [prefix |-> RefPrefix(src, i),
                  event |-> src[i].event, value |-> src[i].value]
  /\ src = C3_Example =>
       [i \in DOMAIN pout |-> pout[i].prefix] = C3_ExamplePrefixes

C3_Witness ==
  /\ src = C3_Example
  /\ [i \in DOMAIN pout |-> pout[i].prefix] = C3_ExamplePrefixes

(****************** reference: occurrences at a prefix *********************)
IsValueStart(e) == e.event \notin {"map_key", "end_map", "end_array"}

\* Events that start a value whose dotted location is p.
AtPrefix(evs, p) ==
  { i \in DOMAIN evs : IsValueStart(evs[i]) /\ Join(Location(evs, i)) = p }

\* Those not inside another value at the same dotted location.
Occurrences(evs, p) ==
  { i \in AtPrefix(evs, p) :
      ~ \E j \in AtPrefix(evs, p) : j < i /\ i < DecValue(evs, j).next }

RECURSIVE InOrder(_)
InOrder(I) ==
  IF I = {} THEN <<>>
  ELSE LET m == CHOOSE x \in I : \A y \in I : x <= y
       IN <<m>> \o InOrder(I \ {m})

RefItems(evs, p) ==
  LET idx == InOrder(Occurrences(evs, p))
  IN [n \in DOMAIN idx |-> DecValue(evs, idx[n]).val]

\* C2: Prefix filtering correctness.  For a well-formed document and a
\* target prefix, items(parse(events), prefix) yields exactly the values
\* located at that dotted path, in document order: none missing, none
\* extra, none out of order.
C2_PrefixFiltering ==
  SrcComplete =>
    /\ ierr = ""
    /\ iout = RefItems(src, prefix)

\* C4: Truncation detection.  When the event source ends while the region
\* items started at the target prefix is still open, consumption faults
\* with the 'incomplete data' error; it does not end the sequence silently.
C4_TruncationFaults ==
  (eof /\ ~SrcComplete /\ ipc = "build") => ierr = "IncompleteJSONError"

(********************* reference: the hybrid target ************************)
Min(I) == CHOOSE x \in I : \A y \in I : x <= y

\* Start events whose location is the target path minus its last segment.
HandoffPoints ==
  { i \in DOMAIN src : IsStart(src[i].event) /\ Location(src, i) = Front(hprefix) }

\* The event at which construction must hand over to the generator.
Handoff == Min(HandoffPoints)

\* Index of the event that completes the value starting at s; 0 if it is
\* still open.
ValueEnd(evs, s) ==
  IF ~IsStart(evs[s].event) THEN s
  ELSE LET C == { j \in (s + 1)..Len(evs) :
                    DepthBefore(evs, j + 1) = DepthBefore(evs, s) }
       IN IF C = {} THEN 0 ELSE Min(C)

TargetOpen == HandoffPoints # {} /\ ValueEnd(src, Handoff) = 0

\* Events starting an element of the container opened at Handoff.
TargetElements ==
  { s \in (Handoff + 1)..Len(src) :
      /\ IsValueStart(src[s])
      /\ DepthBefore(src, s) = DepthBefore(src, Handoff) + 1
      /\ (TargetOpen \/ s < ValueEnd(src, Handoff)) }

InTarget(at) == at > Handoff /\ (TargetOpen \/ at < ValueEnd(src, Handoff))

RECURSIVE Mask(_, _)
\* The tree t with whatever lies at location loc blanked out.
Mask(t, loc) ==
  IF loc = <<>> THEN Str(<<"*">>)
  ELSE IF t.k = "array" /\ Head(loc) = Str(ItemStr)
    THEN Arr([i \in DOMAIN t.v |-> Mask(t.v[i], Tail(loc))])
  ELSE IF t.k = "map" /\ Head(loc).v \in DOMAIN t.v
    THEN Mp([key \in DOMAIN t.v |->
               IF key = Head(loc).v THEN Mask(t.v[key], Tail(loc)) ELSE t.v[key]])
  ELSE t

Skeleton == Deref(heap, Self)

\* C5: Phase 2 yields nothing spurious.  Every yield of the item generator
\* is caused by a scalar or an End event that completed a value located at
\* the target path, each completed value is yielded at most once, and no
\* yield is caused by a Start or a MapKey event.
C5_NoSpuriousYield ==
  \A n \in DOMAIN hout :
    LET at == hout[n].at IN
      /\ IsEnd(src[at].event) \/ src[at].event = "number"
      /\ hprefix = IF IsEnd(src[at].event) THEN OwnerLocation(src, at)
                                           ELSE Location(src, at)
      /\ \A m \in DOMAIN hout : m # n => hout[m].at # at

\* C6: Phase 2 yields every item.  When the target path ends in 'item' and
\* points at an array, the yields made inside that array are exactly its
\* completed elements, in order, each yielded as the fully built value at
\* the very event that completes it.
C6_YieldsEveryItem ==
  (/\ hpc \in {"handoff", "generator", "yielded", "drained"}
   /\ Last(hprefix) = Str(ItemStr)
   /\ src[Handoff].event = "start_array")
  => LET done == InOrder({ s \in TargetElements : ValueEnd(src, s) # 0 })
         ys == SelectSeq(hout, LAMBDA y : InTarget(y.at))
     IN [n \in DOMAIN ys |-> <<ys[n].tree, ys[n].at>>]
          = [n \in DOMAIN done |->
               <<DecValue(src, done[n]).val, ValueEnd(src, done[n])>>]

\* in {"a": [1, {"a": 2}]} with target a.item both elements have been yielded
C6_Witness ==
  /\ hprefix = PrefixOf(<<"a", Dot>> \o ItemStr)
  /\ Len(hout) = 2
  /\ hout[1].tree = Num(1)
  /\ hout[2].tree = Mp((<<"a">> :> Num(2)))
  /\ hout[2].at = Len(src)

\* C7: Hybrid skeleton fidelity.  Once the stream of a well-formed document
\* is exhausted, everything outside the target location is reachable from
\* the root ijsondict with the document's nesting, container kinds and
\* element order.
C7_SkeletonFidelity ==
  (SrcComplete /\ hpc \in {"built", "drained"}) =>
    Mask(Skeleton, Front(hprefix)) = Mask(Document, Front(hprefix))

\* C8: Streamed items are forwarded, not accumulated.  While the target
\* collection is being streamed, the placeholder array that replaced the top
\* of the data stack holds no item that has already been completed and
\* yielded: at most the one element still being built.
C8_NoAccumulation ==
  (hpc \in {"generator", "yielded"} /\ herr = "" /\ TargetOpen)
    => Len(heap[data_stack[Len(hprefix)].v].v)
         <= Cardinality({ s \in TargetElements : ValueEnd(src, s) = 0 })

\* C9: Hybrid dual-stack invariant.  After every event of either phase, at
\* the handoff, at every yield and after exhaustion, keys_stack and
\* data_stack have the same length, which is the current nesting depth.
C9_DualStack ==
  /\ Len(keys_stack) = Len(data_stack)
  /\ herr = "" => Len(data_stack) = Len(open)

\* the generator has just yielded from inside a container nested in the target
C9_Witness ==
  /\ hpc = "yielded" /\ yield_flag
  /\ Len(data_stack) = 2 /\ Len(keys_stack) = 2
  /\ hout # <<>> /\ Last(hout).at = Len(src)
  /\ IsEnd(src[Len(src)].event)

\* C10: Hybrid handoff and laziness.  Construction consumes events up to and
\* including the first Start event located at the target path minus its last
\* segment and stores the generator, not yet started, at the target key of
\* the enclosing container; keys before the target are then present, and
\* once generator and stream are exhausted every top-level key is.
C10_HandoffAndLaziness ==
  /\ hpc = "start_parse" => HandoffPoints = {}
  /\ hpc = "handoff" =>
       /\ Len(src) = Handoff
       /\ hout = <<>>
       /\ Len(data_stack) >= 2
       /\ LET parent == heap[data_stack[Len(data_stack) - 1].v]
              key == keys_stack[Len(keys_stack) - 1].v
          IN IF parent.k = "map"
               THEN key \in DOMAIN parent.v /\ parent.v[key] = Gen
               ELSE parent.v # <<>> /\ Last(parent.v) = Gen
       /\ \A i \in DOMAIN src :
            (src[i].event = "map_key" /\ DepthBefore(src, i) = 1)
              => src[i].value.v \in DOMAIN Skeleton.v
  /\ (SrcComplete /\ hpc = "drained" /\ Document.k = "map") =>
       DOMAIN Skeleton.v = DOMAIN Document.v

(********************* reference: malformed sources ************************)
\* Event i is an End event that no open container matches.
StrayEnd(evs, i) == IsEnd(evs[i].event) /\ DepthBefore(evs, i) <= 0

\* C11: Path Annotator structural underflow.  When parse receives an EndMap
\* or EndArray while its path stack is empty, it faults at the very pull that
\* consumes the event, emits no triple for it, and the triples emitted before
\* are unchanged.
C11_ParseUnderflow ==
  (src # <<>> /\ StrayEnd(src, Len(src))) =>
    /\ perr = "IndexError"
    /\ Len(pout) = Len(src) - 1
    /\ \A i \in DOMAIN pout :
         pout[i] = [prefix |-> RefPrefix(src, i),
                    event |-> src[i].event, value |-> src[i].value]

\* a complete document of at least two events is followed by an unmatched End
C11_Witness ==
  /\ Len(src) >= 3
  /\ StrayEnd(src, Len(src))
  /\ perr = "IndexError"
  /\ Len(pout) = Len(src) - 1

\* C12: Invalid configuration.  Constructing an ijsondict with a prefix that
\* is neither a string nor a list is rejected with an error, and no event has
\* been pulled from the source when it is.
C12_InvalidPrefixRejected ==
  [][(hpc = "new" /\ herr = "" /\ hprefix.k \notin {"str", "list"})
       => (herr' = "ValueError" /\ hpc' = "new" /\ src' = <<>> /\ ~eof')
    ]_<<hpc, herr, src, eof>>

\* the constructor has rejected the prefix argument 1
C12_Witness ==
  /\ herr = "ValueError"
  /\ hprefix = Num(1)
  /\ src = <<>>

\* C13: ObjectBuilder.value is available at any time.  In every state of an
\* ObjectBuilder, right after construction included, the value attribute is
\* defined.
C13_ValueAlwaysAvailable == builder.value # Unset

\* C14: Tree Builder structural underflow.  An End event passed to
\* ObjectBuilder.event while no container is open is reported as a fault at
\* that very event.
C14_BuilderUnderflowReported ==
  (src # <<>> /\ StrayEnd(src, Len(src))) => builder.err # ""

\* C15: Builder stack depth invariant, as stated: after every event of a
\* well-formed stream, len(self.containers) equals the number of containers
\* opened and not yet closed.
C15_StackEqualsDepth == Len(builder.containers) = Len(open)

\* C15, amended: self.containers holds the root-setter slot and, above it,
\* one slot per container opened and not yet closed, of the kind of that
\* container; its length is the nesting depth plus one.
C15_StackDepthPlusRoot ==
  /\ builder.err = ""
  /\ Len(builder.containers) = Len(open) + 1
  /\ builder.containers[1].k = "initial_set"
  /\ \A d \in DOMAIN open :
       builder.containers[d + 1].k =
         IF open[d].t = "map" THEN "setter" ELSE "append"

\* two containers are open after another one was closed
C15_Witness ==
  /\ Len(open) = 2
  /\ Len(builder.containers) = 3
  /\ \E i \in DOMAIN src : IsEnd(src[i].event)

(********************* reference: completed values ************************)
\* Index of the event starting the value that event n completes; 0 if event
\* n completes no value.
ValueStartOf(evs, n) ==
  LET S == { s \in 1..n : IsValueStart(evs[s]) /\ ValueEnd(evs, s) = n }
  IN IF S = {} THEN 0 ELSE Min(S)

\* C16: No read-ahead in the lazy sequences.  Each pull consumes exactly one
\* flat event and parse emits one triple for it; when items yields a value,
\* the event just consumed is the scalar or the End event that completes
\* that value, so values come out in document order.
C16_NoReadAhead ==
  [][ /\ Len(src') <= Len(src) + 1
      /\ Len(pout') = Len(src')
      /\ iout' # iout =>
           LET n == Len(src')
               s == ValueStartOf(src', n)
           IN /\ n = Len(src) + 1
              /\ s # 0
              /\ iout' = Append(iout, DecValue(src', s).val)
    ]_vars

\* The container at the target path is empty: its End event immediately
\* follows the Start event of the handoff.
EmptyTarget ==
  /\ HandoffPoints # {}
  /\ Len(src) > Handoff
  /\ IsEnd(src[Handoff + 1].event)

\* C17: Empty target collection.  When the container at the target path is
\* empty, the generator yields nothing over the whole rest of the stream,
\* both stacks follow the nesting through the End events, and what follows
\* the target is captured in the skeleton.
C17_EmptyTarget ==
  (hpc \in {"handoff", "generator", "yielded", "drained"} /\ EmptyTarget) =>
    /\ hout = <<>>
    /\ herr = ""
    /\ Len(keys_stack) = Len(open) /\ Len(data_stack) = Len(open)
    /\ (SrcComplete /\ hpc = "drained") =>
         Mask(Skeleton, Front(hprefix)) = Mask(Document, Front(hprefix))

\* C18: Region end detection in items.  After a Start event with the target
\* prefix, the first later triple whose (prefix, kind) is (target, matching
\* End kind) is the End event closing that very container.
C18_RegionEnd ==
  \A s \in DOMAIN pout :
    (IsStart(pout[s].event) /\ pout[s].prefix = prefix) =>
      LET M == { j \in (s + 1)..Len(pout) :
                   /\ pout[j].prefix = prefix
                   /\ pout[j].event = EndEvent(pout[s].event) }
      IN M # {} => Min(M) = ValueEnd(src, s)

\* C19: Path stack balance in parse.  After each event of a well-formed
\* stream, len(path) is the number of open containers; the None pushed by
\* start_map is only ever on top of the stack, while its map has no key yet,
\* and is never joined into a prefix; an End event gets the prefix of its
\* matching Start event; the stack is empty once the top-level value is
\* closed.
C19_PathBalance ==
  /\ perr = ""
  /\ Len(path) = Len(open)
  /\ \A d \in DOMAIN path :
       path[d] = None =>
         d = Len(path) /\ open[d].t = "map" /\ open[d].used = {}
  /\ \A i \in DOMAIN pout :
       IsEnd(pout[i].event) =>
         pout[i].prefix = pout[ValueStartOf(src, i)].prefix
  /\ SrcComplete => path = <<>>

\* a document with a nested container under a key is closed: the nested End
\* event carried a non-empty prefix and the stack is empty again
C19_Witness ==
  /\ SrcComplete
  /\ path = <<>>
  /\ \E i \in DOMAIN pout :
       /\ IsEnd(pout[i].event)
       /\ pout[i].prefix = <<"a">>
       /\ pout[ValueStartOf(src, i)].prefix = <<"a">>

\* C20: items yields only values.  Every yield of items is made either by
\* the outer loop on a scalar event or by the inner loop on the End event of
\* the region; what is yielded is a scalar or a built container, never a key
\* name or the None of a structural event.
C20_YieldsOnlyValues ==
  [][ iout' # iout =>
        /\ Last(iout').k \in {"num", "array", "map"}
        /\ ipc = "top" => Last(src').event = "number"
        /\ ipc = "build" => IsEnd(Last(src').event)
    ]_vars

====
